---- MODULE Spec2Model ----
(***************************************************************************)
(* A model of the VQE exam-topic prediction service:                       *)
(*   - VQEPredictor.predict_topics and its two estimators                  *)
(*     (src/src/services/vqe_predictor.py), specification Spec;            *)
(*   - the POST /api/v1/predict endpoint (src/src/api/main.py),            *)
(*     specification ApiSpec.                                              *)
(*                                                                         *)
(* Numbers.  Frequencies are integers.  Importances and interval ends are  *)
(* integers counting ten-thousandths (round(x, 4) * 10^4).  Confidence     *)
(* levels and the blend weights are integers counting hundredths.          *)
(* Eigenvalues are integers counting hundredths.  Uncertainties are        *)
(* integers counting thousandths.  Square roots are taken as integer       *)
(* square roots of scaled arguments.                                       *)
(***************************************************************************)
EXTENDS Integers, Sequences, FiniteSets, TLC

VARIABLES
    \* ---- VQEPredictor.predict_topics ----
    request,                \* PredictionRequest: topics, confidence_level, force_classical
    historical_data,        \* Dict[str, List[float]]
    quantum_available,      \* VQEPredictor.quantum_available
    min_historical_years,   \* settings.min_historical_years
    pc,                     \* position in predict_topics
    idx,                    \* position of the for loop in request.topics (1-based)
    predictions,            \* the list being built
    trace,                  \* log of what was done for each topic (skips, estimator calls)
    response,               \* the VQEPredictionResponse returned, or NoResponse
    \* ---- POST /api/v1/predict ----
    request_count,          \* the global _request_count
    api_request,            \* the last request served
    api_service,            \* what predictor.predict_topics did for the last request
    api_selected,           \* the method-selection step's outcome for the last request
    api_response            \* the last response

coreVars == <<request, historical_data, quantum_available, min_historical_years,
              pc, idx, predictions, trace, response>>
apiVars == <<request_count, api_request, api_service, api_selected, api_response>>
vars == <<coreVars, apiVars>>

-----------------------------------------------------------------------------
(* Bounds and input sets *)

MaxTopics == 2

TopicNames == {"qm", "la"}

\* The series a topic may have in historical_data.
SeriesPool ==
    { <<10>>, <<10, 12>>, <<40, 10, 12>>, <<15, 18, 22, 25, 28>>, <<30, 15, 2>>,
      <<90, 120, 150>> }

\* settings.min_historical_years is read from the environment (default 3).
MinYearsChoices == {1, 2, 3}

\* Confidence levels handed to the predictor, in hundredths.  Its caller in the
\* repository, the CLI predict command, hands over args.confidence, any float
\* (--confidence, type=float): 1.5 is one of them.
CoreConfidenceLevels == {80, 95, 150}

\* What the optimizer (vqe.compute_minimum_eigenvalue) can give: an eigenvalue
\* (in hundredths) or an exception anywhere in _quantum_prediction.
Eigenvalues == {-250, -100, 250}
VqeOutcomes ==
    [raised : {FALSE}, eigenvalue : Eigenvalues] \cup {[raised |-> TRUE, eigenvalue |-> 0]}

\* int((time.time() - start_time) * 1000)
ExecTimes == {0, 1500}

NoResponse == [none |-> TRUE]

RECURSIVE SeqsUpTo(_, _)
SeqsUpTo(S, n) ==
    IF n = 0 THEN { <<>> }
    ELSE LET shorter == SeqsUpTo(S, n - 1)
         IN  shorter \cup { Append(s, x) : s \in { t \in shorter : Len(t) = n - 1 }, x \in S }

HistoricalDataChoices ==
    UNION { [D -> SeriesPool] : D \in SUBSET TopicNames }

-----------------------------------------------------------------------------
(* Arithmetic helpers *)

Min2(a, b) == IF a < b THEN a ELSE b
Max2(a, b) == IF a > b THEN a ELSE b

RECURSIVE SumTo(_, _, _)
\* sum of f[k] for k in a..b
SumTo(f, a, b) == IF a > b THEN 0 ELSE f[a] + SumTo(f, a + 1, b)

RECURSIVE IsqrtIn(_, _, _)
\* the largest r in lo..hi with r*r <= n (lo*lo <= n is assumed)
IsqrtIn(n, lo, hi) ==
    IF lo >= hi THEN lo
    ELSE LET mid == (lo + hi + 1) \div 2
         IN  IF mid * mid <= n THEN IsqrtIn(n, mid, hi) ELSE IsqrtIn(n, lo, mid - 1)

Isqrt(n) == IsqrtIn(n, 0, Min2(n, 46340))

\* round(num / den) for den > 0, ties to even (Python's round); \div rounds
\* down and % is never negative
RoundDiv(num, den) ==
    LET q == num \div den
        r == num % den
    IN  IF 2 * r < den THEN q
        ELSE IF 2 * r > den THEN q + 1
        ELSE IF q % 2 = 0 THEN q ELSE q + 1

-----------------------------------------------------------------------------
(* VQEPredictor._classical_prediction *)

\* if len(data) < 2: raise ValueError
ClassicalRaises(data) == Len(data) < 2

\* x = np.arange(len(data)): sums over the index sequence 0..n-1
SumX(n) == SumTo([k \in 0..(n - 1) |-> k], 0, n - 1)
SumXX(n) == SumTo([k \in 0..(n - 1) |-> k * k], 0, n - 1)
SumY(data) == SumTo(data, 1, Len(data))
SumYY(data) == SumTo([k \in 1..Len(data) |-> data[k] * data[k]], 1, Len(data))
SumXY(data) == SumTo([k \in 1..Len(data) |-> (k - 1) * data[k]], 1, Len(data))

\* slope, intercept = np.polyfit(x, y, 1), as fractions over the common
\* denominator FitDen (> 0 for n >= 2)
FitDen(data) == Len(data) * SumXX(Len(data)) - SumX(Len(data)) * SumX(Len(data))
SlopeNum(data) == Len(data) * SumXY(data) - SumX(Len(data)) * SumY(data)
InterceptNum(data) == SumY(data) * SumXX(Len(data)) - SumX(Len(data)) * SumXY(data)

\* predicted_value = slope * next_x + intercept, times FitDen
PredictedNum(data) == SlopeNum(data) * Len(data) + InterceptNum(data)

\* residuals = y - (slope * x + intercept): the sum of their squares, times FitDen^2
ResidualSq(data) ==
    SumTo([k \in 1..Len(data) |->
              LET r == FitDen(data) * data[k] - SlopeNum(data) * (k - 1) - InterceptNum(data)
              IN  r * r],
          1, Len(data))

\* importance = min(1.0, max(0.0, predicted_value / 100.0)), rounded to 4 places
ClassicalImportance(data) ==
    RoundDiv(Min2(10000 * FitDen(data), Max2(0, 100 * PredictedNum(data))), FitDen(data))

\* margin = 1.96 * np.std(residuals, ddof=2), in ten-thousandths of the
\* importance scale, as the fraction ClassicalMarginNum / ClassicalDen.  With two
\* observations the divisor n - 2 is zero and the margin is not finite.
MarginFinite(data) == Len(data) > 2
ClassicalDen(data) == 100 * FitDen(data)
ClassicalMarginNum(data) ==
    196 * Isqrt((10000 * ResidualSq(data)) \div (Len(data) - 2))

\* confidence_lower = max(0.0, (predicted_value - margin) / 100.0): max(0.0, x)
\* is 0.0 for x = -inf and for x = nan
ClassicalLower(data) ==
    IF ~MarginFinite(data) THEN 0
    ELSE RoundDiv(Max2(0, 10000 * PredictedNum(data) - ClassicalMarginNum(data)),
                  ClassicalDen(data))

\* confidence_upper = min(1.0, (predicted_value + margin) / 100.0): min(1.0, x)
\* is 1.0 for x = +inf and for x = nan
ClassicalUpper(data) ==
    IF ~MarginFinite(data) THEN 10000
    ELSE RoundDiv(Min2(10000 * ClassicalDen(data),
                       10000 * PredictedNum(data) + ClassicalMarginNum(data)),
                  ClassicalDen(data))

ClassicalTrendLastTwo(data) ==
    IF Len(data) >= 2
    THEN IF data[Len(data)] > data[Len(data) - 1] THEN "increasing" ELSE "decreasing"
    ELSE "stable"

\* trend = "increasing" if slope > 0 else "decreasing" if slope < 0 else "stable"
ClassicalTrend(data) ==
    IF SlopeNum(data) > 0 THEN "increasing"
    ELSE IF SlopeNum(data) < 0 THEN "decreasing"
    ELSE "stable"

\* the PredictionResult returned (for a series that does not raise)
ClassicalPrediction(topic, data) ==
    [topic |-> topic,
     importance |-> ClassicalImportance(data),
     confidence_interval |-> <<ClassicalLower(data), ClassicalUpper(data)>>,
     trend |-> ClassicalTrend(data),
     method |-> "classical"]

-----------------------------------------------------------------------------
(* VQEPredictor._quantum_prediction *)

QuantumImportanceUnclamped(eigenvalue) == (eigenvalue + 200) * 25

\* importance = (eigenvalue + 2.0) / 4.0, clamped to [0, 1]
QuantumImportance(eigenvalue) == Max2(0, Min2(10000, (eigenvalue + 200) * 25))

\* std_dev = np.std(data) / len(data) if len(data) > 1 else 0.1, and
\* margin = 1.96 * std_dev * (1 - confidence_level): as a fraction
\* QuantumMarginNum / QuantumMarginDen of a ten-thousandth
QuantumMarginDen(data) == IF Len(data) > 1 THEN 100 * Len(data) * Len(data) ELSE 10
QuantumMarginNum(data, confidence_level) ==
    IF Len(data) > 1
    THEN 196 * (100 - confidence_level)
             * Isqrt(10000 * (Len(data) * SumYY(data) - SumY(data) * SumY(data)))
    ELSE 196 * (100 - confidence_level)

\* confidence_lower = max(0.0, importance - margin)
QuantumLower(eigenvalue, data, confidence_level) ==
    RoundDiv(Max2(0, QuantumImportance(eigenvalue) * QuantumMarginDen(data)
                         - QuantumMarginNum(data, confidence_level)),
             QuantumMarginDen(data))

\* confidence_upper = min(1.0, importance + margin)
QuantumUpper(eigenvalue, data, confidence_level) ==
    RoundDiv(Min2(10000 * QuantumMarginDen(data),
                  QuantumImportance(eigenvalue) * QuantumMarginDen(data)
                      + QuantumMarginNum(data, confidence_level)),
             QuantumMarginDen(data))

QuantumTrendFromFit(data) == ClassicalTrend(data)

\* trend from the last two observations
QuantumTrend(data) ==
    IF Len(data) >= 2
    THEN IF data[Len(data)] > data[Len(data) - 1] THEN "increasing" ELSE "decreasing"
    ELSE "stable"

QuantumPrediction(topic, data, confidence_level, eigenvalue) ==
    [topic |-> topic,
     importance |-> QuantumImportance(eigenvalue),
     confidence_interval |-> <<QuantumLower(eigenvalue, data, confidence_level),
                               QuantumUpper(eigenvalue, data, confidence_level)>>,
     trend |-> QuantumTrend(data),
     method |-> "quantum"]

-----------------------------------------------------------------------------
(* VQEPredictor.predict_topics *)

TopicReversed == request.topics[Len(request.topics) + 1 - idx]

\* for topic in request.topics:
Topic == request.topics[idx]
Data == historical_data[Topic]

InLoop == pc = "loop" /\ idx <= Len(request.topics)

\* if topic not in historical_data: continue
TopicAbsent(topic) == topic \notin DOMAIN historical_data

InsufficientDataOffByOne(data) == Len(data) < min_historical_years - 1

\* if len(data) < settings.min_historical_years: continue
InsufficientData(data) == Len(data) < min_historical_years

UseQuantumIgnoringAvailability == ~request.force_classical

\* if self.quantum_available and not request.force_classical
UseQuantum == quantum_available /\ ~request.force_classical

\* _quantum_prediction raises when quantum is unavailable, and whenever circuit
\* construction or the optimizer raises
QuantumRaises(outcome) == ~quantum_available \/ outcome.raised

EstimatorErrorEscapes == FALSE

\* except Exception as e: (around the first estimator attempt)
CatchesEstimatorError == TRUE

FallbackErrorEscapes == FALSE

\* except Exception as e2: (around the classical recovery)
CatchesFallbackError == TRUE

FallbackMethodNotRelabelled == "classical"

\* result.method = "classical_fallback"
FallbackMethod == "classical_fallback"

FallbackResult(topic, data) ==
    [ClassicalPrediction(topic, data) EXCEPT !.method = FallbackMethod]

FallbackUsedOnlyRecovery(preds) ==
    \E k \in 1..Len(preds) : preds[k].method = "classical_fallback"

\* fallback_used = any(p.method in ["classical", "classical_fallback"] for p in predictions)
FallbackUsed(preds) ==
    \E k \in 1..Len(preds) : preds[k].method \in {"classical", "classical_fallback"}

\* one entry of the log: what was done for the topic at position idx, whether it
\* raised, and (for a quantum attempt) the eigenvalue the optimizer gave
Event(step, raised, eigenvalue) ==
    [idx |-> idx, step |-> step, raised |-> raised, eigenvalue |-> eigenvalue]

SkipAbsent ==
    /\ InLoop
    /\ TopicAbsent(Topic)
    /\ trace' = Append(trace, Event("skip_absent", FALSE, 0))
    /\ idx' = idx + 1
    /\ UNCHANGED <<request, historical_data, quantum_available, min_historical_years,
                   pc, predictions, response>>

SkipInsufficient ==
    /\ InLoop
    /\ ~TopicAbsent(Topic)
    /\ InsufficientData(Data)
    /\ trace' = Append(trace, Event("skip_short", FALSE, 0))
    /\ idx' = idx + 1
    /\ UNCHANGED <<request, historical_data, quantum_available, min_historical_years,
                   pc, predictions, response>>

Eligible == InLoop /\ ~TopicAbsent(Topic) /\ ~InsufficientData(Data)

QuantumAttempt ==
    /\ Eligible
    /\ UseQuantum
    /\ \E outcome \in VqeOutcomes :
          /\ trace' = Append(trace, Event("quantum", QuantumRaises(outcome), outcome.eigenvalue))
          /\ IF QuantumRaises(outcome)
             THEN /\ pc' = IF CatchesEstimatorError THEN "except" ELSE "raised"
                  /\ UNCHANGED <<predictions, idx>>
             ELSE /\ predictions' =
                        Append(predictions,
                               QuantumPrediction(Topic, Data, request.confidence_level,
                                                 outcome.eigenvalue))
                  /\ idx' = idx + 1
                  /\ pc' = "loop"
    /\ UNCHANGED <<request, historical_data, quantum_available, min_historical_years,
                   response>>

ClassicalAttempt ==
    /\ Eligible
    /\ ~UseQuantum
    /\ trace' = Append(trace, Event("classical", ClassicalRaises(Data), 0))
    /\ IF ClassicalRaises(Data)
       THEN /\ pc' = IF CatchesEstimatorError THEN "except" ELSE "raised"
            /\ UNCHANGED <<predictions, idx>>
       ELSE /\ predictions' = Append(predictions, ClassicalPrediction(Topic, Data))
            /\ idx' = idx + 1
            /\ pc' = "loop"
    /\ UNCHANGED <<request, historical_data, quantum_available, min_historical_years,
                   response>>

ClassicalFallbackRetries ==
    /\ pc = "except"
    /\ trace' = Append(trace, Event("recovery", ClassicalRaises(Data), 0))
    /\ IF ClassicalRaises(Data)
       THEN /\ pc' = "loop"
            /\ UNCHANGED <<predictions, idx>>
       ELSE /\ predictions' = Append(predictions, FallbackResult(Topic, Data))
            /\ idx' = idx + 1
            /\ pc' = "loop"
    /\ UNCHANGED <<request, historical_data, quantum_available, min_historical_years,
                   response>>

\* the except branch: the classical recovery for the topic whose attempt raised
ClassicalFallback ==
    /\ pc = "except"
    /\ trace' = Append(trace, Event("recovery", ClassicalRaises(Data), 0))
    /\ IF ClassicalRaises(Data)
       THEN /\ pc' = IF CatchesFallbackError THEN "loop" ELSE "raised"
            /\ idx' = IF CatchesFallbackError THEN idx + 1 ELSE idx
            /\ UNCHANGED predictions
       ELSE /\ predictions' = Append(predictions, FallbackResult(Topic, Data))
            /\ idx' = idx + 1
            /\ pc' = "loop"
    /\ UNCHANGED <<request, historical_data, quantum_available, min_historical_years,
                   response>>

Return ==
    /\ pc = "loop"
    /\ idx > Len(request.topics)
    /\ \E t \in ExecTimes :
          response' = [predictions |-> predictions,
                       execution_time_ms |-> t,
                       fallback_used |-> FallbackUsed(predictions)]
    /\ pc' = "done"
    /\ UNCHANGED <<request, historical_data, quantum_available, min_historical_years,
                   idx, predictions, trace>>

CoreRequests ==
    [topics : SeqsUpTo(TopicNames, MaxTopics),
     confidence_level : CoreConfidenceLevels,
     force_classical : BOOLEAN]

ApiIdle ==
    /\ request_count = 0
    /\ api_request = NoResponse
    /\ api_service = NoResponse
    /\ api_selected = NoResponse
    /\ api_response = NoResponse

Init ==
    /\ request \in CoreRequests
    /\ historical_data \in HistoricalDataChoices
    /\ quantum_available \in BOOLEAN
    /\ min_historical_years \in MinYearsChoices
    /\ pc = "loop"
    /\ idx = 1
    /\ predictions = <<>>
    /\ trace = <<>>
    /\ response = NoResponse
    /\ ApiIdle

Next ==
    \/ (SkipAbsent /\ UNCHANGED apiVars)
    \/ (SkipInsufficient /\ UNCHANGED apiVars)
    \/ (QuantumAttempt /\ UNCHANGED apiVars)
    \/ (ClassicalAttempt /\ UNCHANGED apiVars)
    \/ (ClassicalFallback /\ UNCHANGED apiVars)
    \/ (Return /\ UNCHANGED apiVars)

Spec == Init /\ [][Next]_vars

-----------------------------------------------------------------------------
(* POST /api/v1/predict *)

MaxApiTopics == 2
MaxRequests == 3

\* mock_historical_data (two of its entries) and a topic it does not hold
mock_historical_data ==
    [t \in {"quantum-mechanics", "thermodynamics"} |->
        IF t = "quantum-mechanics" THEN <<15, 18, 22, 25, 28>> ELSE <<25, 22, 18, 15, 12>>]
ApiTopicNames == {"quantum-mechanics", "thermodynamics", "physics"}

\* confidence_level of the JSON body, in hundredths (1.5 is out of range)
ApiConfidenceLevels == {0, 50, 85, 90, 94, 95, 98, 99, 100, 150}

\* the JSON bodies posted
ApiRequests ==
    [topics : SeqsUpTo(ApiTopicNames, MaxApiTopics),
     confidence_level : ApiConfidenceLevels,
     force_classical : BOOLEAN]

ValidRequestAnyTopics(req) ==
    /\ req.confidence_level >= 0
    /\ req.confidence_level <= 100

\* The request model (src.models.PredictionRequest) validates the body before the
\* handler runs: a non-empty topic list and a confidence level in [0, 1].
ValidRequest(req) ==
    /\ req.topics # <<>>
    /\ req.confidence_level >= 0
    /\ req.confidence_level <= 100

\* if not request.topics: raise HTTPException(status_code=422, ...)
EmptyTopics(req) == req.topics = <<>>

\* A prediction a substituted predictor hands back in its result
ServicePrediction ==
    [topic |-> "statistics", importance |-> 3000, method |-> "hybrid",
     quantum_contribution |-> 90, classical_contribution |-> 10]

ServiceKeys == {"predictions", "execution_time_ms", "fallback_used", "method_used"}

\* What predictor.predict_topics({...}) does.  The module's own VQEPredictor takes
\* (request, historical_data): called with the single dict it raises TypeError.
\* A substituted predictor raises, returns a falsy value (None, {}: no keys), or
\* returns a dict holding any of the four keys the endpoint reads.  A key that is
\* not in `keys` has a placeholder value that is never read.
ServiceDicts ==
    { [keys |-> K,
       predictions |-> IF "predictions" \in K THEN p ELSE <<>>,
       execution_time_ms |-> IF "execution_time_ms" \in K THEN 1500 ELSE 0,
       fallback_used |-> IF "fallback_used" \in K THEN f ELSE FALSE,
       method_used |-> IF "method_used" \in K THEN m ELSE "none"] :
         K \in SUBSET ServiceKeys, p \in { <<>>, <<ServicePrediction>> },
         f \in BOOLEAN, m \in {"quantum", "classical"} }

NoDict == CHOOSE d \in ServiceDicts : d.keys = {}

ServiceOutcomes ==
    { [predictor |-> "VQEPredictor", raised |-> TRUE, result |-> NoDict] }
    \cup [predictor : {"substitute"}, raised : {TRUE}, result : {NoDict}]
    \cup [predictor : {"substitute"}, raised : {FALSE}, result : ServiceDicts]

\* quantum_available is False only if predictor.quantum_available is False
ApiQuantumAvailable(qa) == ~(qa = FALSE)

\* if request.confidence_level >= 0.99
QuantumOnly(confidence_level) == confidence_level >= 99

SelectMethodByRequestCount(qa, force_classical, confidence_level) ==
    IF force_classical THEN [method_used |-> "classical", fallback_used |-> FALSE]
    ELSE IF ~qa THEN [method_used |-> "classical", fallback_used |-> TRUE]
    ELSE IF QuantumOnly(confidence_level) \/ request_count >= 2
         THEN [method_used |-> "quantum", fallback_used |-> FALSE]
         ELSE [method_used |-> "hybrid", fallback_used |-> FALSE]

\* the method-selection step: (method_used, fallback_used)
SelectMethod(qa, force_classical, confidence_level) ==
    IF force_classical THEN [method_used |-> "classical", fallback_used |-> FALSE]
    ELSE IF ~qa THEN [method_used |-> "classical", fallback_used |-> TRUE]
    ELSE IF QuantumOnly(confidence_level)
         THEN [method_used |-> "quantum", fallback_used |-> FALSE]
         ELSE [method_used |-> "hybrid", fallback_used |-> FALSE]

BlendWeightsStrict(confidence_level) ==
    IF confidence_level > 95 THEN <<90, 10>>
    ELSE IF confidence_level > 90 THEN <<70, 30>>
    ELSE IF confidence_level > 85 THEN <<60, 40>>
    ELSE <<40, 60>>

BlendWeightsUnnormalised(confidence_level) ==
    IF confidence_level >= 95 THEN <<90, 10>>
    ELSE IF confidence_level >= 90 THEN <<70, 30>>
    ELSE IF confidence_level >= 85 THEN <<60, 30>>
    ELSE <<40, 40>>

\* (quantum_contribution, classical_contribution), in hundredths
BlendWeights(confidence_level) ==
    IF confidence_level >= 95 THEN <<90, 10>>
    ELSE IF confidence_level >= 90 THEN <<70, 30>>
    ELSE IF confidence_level >= 85 THEN <<60, 40>>
    ELSE <<40, 60>>

\* prediction["uncertainty_quantification"] for a hybrid prediction, in thousandths
HybridUncertainty ==
    [quantum_uncertainty |-> 50, classical_uncertainty |-> 30, blended_uncertainty |-> 40]

\* prediction["uncertainty_quantification"] for a quantum prediction, in thousandths
QuantumUncertainty ==
    [quantum_uncertainty |-> 80, classical_uncertainty |-> 0, blended_uncertainty |-> 80]

BasePredictionUnknownClassical(topic, method) ==
    IF topic \in DOMAIN mock_historical_data
    THEN LET series == mock_historical_data[topic]
             latest_freq == series[Len(series)]
         IN  [topic |-> topic,
              importance |-> 100 * latest_freq,
              confidence_interval |-> <<100 * Max2(0, latest_freq - 5),
                                        100 * Min2(100, latest_freq + 5)>>,
              trend |-> IF series[Len(series)] > series[1]
                        THEN "increasing" ELSE "decreasing",
              method |-> method]
    ELSE [topic |-> topic,
          importance |-> 0,
          confidence_interval |-> <<0, 0>>,
          trend |-> "unknown",
          method |-> "classical"]

\* the base dict of a prediction the endpoint builds for one topic
BasePrediction(topic, method) ==
    IF topic \in DOMAIN mock_historical_data
    THEN LET series == mock_historical_data[topic]
             latest_freq == series[Len(series)]
         IN  [topic |-> topic,
              importance |-> 100 * latest_freq,
              confidence_interval |-> <<100 * Max2(0, latest_freq - 5),
                                        100 * Min2(100, latest_freq + 5)>>,
              trend |-> IF series[Len(series)] > series[1]
                        THEN "increasing" ELSE "decreasing",
              method |-> method]
    ELSE [topic |-> topic,
          importance |-> 0,
          confidence_interval |-> <<0, 0>>,
          trend |-> "unknown",
          method |-> method]

MethodFieldsUnlessQuantum(method, confidence_level) ==
    IF method # "quantum"
    THEN [quantum_contribution |-> BlendWeights(confidence_level)[1],
          classical_contribution |-> BlendWeights(confidence_level)[2],
          uncertainty_quantification |-> HybridUncertainty]
    ELSE [uncertainty_quantification |-> QuantumUncertainty]

\* the hybrid- and quantum-specific fields added to the base dict
MethodFields(method, confidence_level) ==
    IF method = "hybrid"
    THEN [quantum_contribution |-> BlendWeights(confidence_level)[1],
          classical_contribution |-> BlendWeights(confidence_level)[2],
          uncertainty_quantification |-> HybridUncertainty]
    ELSE IF method = "quantum"
    THEN [uncertainty_quantification |-> QuantumUncertainty]
    ELSE <<>>

BuildPrediction(topic, method, confidence_level) ==
    BasePrediction(topic, method) @@ MethodFields(method, confidence_level)

BuildPredictionsKnownOnly(topics, method, confidence_level) ==
    LET known == SelectSeq(topics, LAMBDA t : t \in DOMAIN mock_historical_data)
    IN  [k \in 1..Len(known) |-> BuildPrediction(known[k], method, confidence_level)]

\* for topic_name in request.topics: one prediction each, known topic or not
BuildPredictions(topics, method, confidence_level) ==
    [k \in 1..Len(topics) |-> BuildPrediction(topics[k], method, confidence_level)]

\* if service_result: a dict with at least one key
ServiceResultUsed(service) == ~service.raised /\ service.result.keys # {}

\* service_result.get(key, default)
ServiceGet(service, key, default) ==
    IF key \in service.result.keys THEN service.result[key] ELSE default

MethodAfterServiceKeepsSelection(selected, service) ==
    IF ServiceResultUsed(service)
    THEN ServiceGet(service, "method_used", selected.method_used)
    ELSE selected.method_used

\* method_used after the service call
MethodAfterService(selected, service) ==
    IF service.raised THEN "classical"
    ELSE IF ServiceResultUsed(service)
    THEN ServiceGet(service, "method_used", selected.method_used)
    ELSE selected.method_used

\* fallback_used after the service call
FallbackAfterService(selected, service) ==
    IF service.raised THEN TRUE
    ELSE IF ServiceResultUsed(service)
    THEN ServiceGet(service, "fallback_used", selected.fallback_used)
    ELSE selected.fallback_used

\* predictions after the service call (before the endpoint builds its own)
ServicePredictions(service) ==
    IF ServiceResultUsed(service) THEN ServiceGet(service, "predictions", <<>>) ELSE <<>>

\* execution_time_ms after the service call
TimeAfterService(service) ==
    IF ServiceResultUsed(service) THEN ServiceGet(service, "execution_time_ms", 0) ELSE 0

\* random.randint(0, hi): its two extremes
RandInt(hi) == {0, hi}

\* int((time.time() - start_time) * 1000) for the endpoint
ApiElapsed == {3, 2500}

\* the synthetic timing, used only if the service set none
SyntheticTimes(count) ==
    IF count <= 2
    THEN { Max2(2000 + r, e) : r \in RandInt(200), e \in ApiElapsed }
    ELSE { Max2(1200 + r, e) : r \in RandInt(100), e \in ApiElapsed }

\* the PredictionResponse of one call, given the execution time drawn
ApiResponse(req, qa, service, time) ==
    LET selected == SelectMethod(ApiQuantumAvailable(qa), req.force_classical,
                                 req.confidence_level)
        method_used == MethodAfterService(selected, service)
        from_service == ServicePredictions(service)
    IN  [status |-> 200,
         predictions |-> IF from_service # <<>> THEN from_service
                         ELSE BuildPredictions(req.topics, method_used,
                                               req.confidence_level),
         built |-> from_service = <<>>,
         execution_time_ms |-> time,
         fallback_used |-> FallbackAfterService(selected, service),
         method_used |-> method_used,
         quantum_resources |-> method_used = "quantum",
         service_called |-> TRUE]

\* an error answer: no prediction was built and predictor.predict_topics was not called
ErrorResponse(status) ==
    [status |-> status,
     predictions |-> <<>>,
     built |-> FALSE,
     execution_time_ms |-> 0,
     fallback_used |-> FALSE,
     method_used |-> "none",
     quantum_resources |-> FALSE,
     service_called |-> FALSE]

\* raise HTTPException(status_code=422) inside the handler's try block is caught by
\* its own `except Exception`, which raises HTTPException(status_code=500)
HandlerErrorStatus == 500

\* one call of the endpoint: validation of the body, then the whole handler
Predict ==
    /\ request_count < MaxRequests
    /\ IF ~ValidRequest(api_request)
       THEN \* answered 422 by the framework; the handler does not run
            /\ api_response' = ErrorResponse(422)
            /\ UNCHANGED <<request_count, api_selected>>
       ELSE IF EmptyTopics(api_request)
       THEN /\ api_response' = ErrorResponse(HandlerErrorStatus)
            /\ UNCHANGED <<request_count, api_selected>>
       ELSE /\ request_count' = request_count + 1
            /\ api_selected' = SelectMethod(ApiQuantumAvailable(quantum_available),
                                            api_request.force_classical,
                                            api_request.confidence_level)
            /\ \E time \in (IF TimeAfterService(api_service) = 0
                            THEN SyntheticTimes(request_count + 1)
                            ELSE {TimeAfterService(api_service)}) :
                  api_response' =
                      ApiResponse(api_request, quantum_available, api_service, time)
    /\ UNCHANGED <<api_request, api_service>>

CoreIdle ==
    /\ request = [topics |-> <<>>, confidence_level |-> 95, force_classical |-> FALSE]
    /\ historical_data = <<>>
    /\ min_historical_years = 3
    /\ pc = "idle"
    /\ idx = 1
    /\ predictions = <<>>
    /\ trace = <<>>
    /\ response = NoResponse

ApiInit ==
    /\ CoreIdle
    /\ quantum_available \in BOOLEAN
    /\ request_count = 0
    /\ api_request \in ApiRequests
    /\ api_service \in ServiceOutcomes
    /\ api_selected = NoResponse
    /\ api_response = NoResponse

ApiNext == Predict /\ UNCHANGED coreVars

ApiSpec == ApiInit /\ [][ApiNext]_vars

-----------------------------------------------------------------------------
(* Properties of VQEPredictor.predict_topics (specification Spec) *)

NumTopics == Len(request.topics)

SeriesOf(k) == historical_data[request.topics[k]]

\* the topic at position k is absent from historical_data or its series is too short
Ineligible(k) ==
    \/ request.topics[k] \notin DOMAIN historical_data
    \/ Len(SeriesOf(k)) < min_historical_years

\* the log entries of the topic at position k, in order
EventsAt(k) == SelectSeq(trace, LAMBDA e : e.idx = k)

EstimatorSteps == {"quantum", "classical", "recovery"}

Returned == pc = "done" /\ response # NoResponse

\* the first estimator attempt for position k raised
FirstAttemptRaised(k) ==
    /\ EventsAt(k) # <<>>
    /\ EventsAt(k)[1].step \in {"quantum", "classical"}
    /\ EventsAt(k)[1].raised

\* ... and the classical recovery that followed succeeded / raised too
Recovered(k) ==
    FirstAttemptRaised(k) /\ Len(EventsAt(k)) = 2
        /\ EventsAt(k)[2].step = "recovery" /\ ~EventsAt(k)[2].raised
BothRaised(k) ==
    FirstAttemptRaised(k) /\ Len(EventsAt(k)) = 2
        /\ EventsAt(k)[2].step = "recovery" /\ EventsAt(k)[2].raised

\* the first estimator attempt for position k succeeded
FirstAttemptSucceeded(k) ==
    /\ EventsAt(k) # <<>>
    /\ EventsAt(k)[1].step \in {"quantum", "classical"}
    /\ ~EventsAt(k)[1].raised

\* What the topic at position k contributes to the response, as a function of its
\* own series and its own estimator outcomes only.
Emitted(k) ==
    IF FirstAttemptSucceeded(k)
    THEN IF EventsAt(k)[1].step = "quantum"
         THEN << QuantumPrediction(request.topics[k], SeriesOf(k),
                                   request.confidence_level, EventsAt(k)[1].eigenvalue) >>
         ELSE << ClassicalPrediction(request.topics[k], SeriesOf(k)) >>
    ELSE IF Recovered(k)
    THEN << [ClassicalPrediction(request.topics[k], SeriesOf(k))
                EXCEPT !.method = "classical_fallback"] >>
    ELSE << >>

RECURSIVE EmittedUpTo(_)
EmittedUpTo(n) == IF n = 0 THEN << >> ELSE EmittedUpTo(n - 1) \o Emitted(n)

\* C1: a requested topic that is absent from historical_data, or whose series has
\* fewer than min_historical_years observations, gets no result, raises nothing and
\* reaches neither estimator (its only log entry is the skip); the other topics of
\* the request are still processed.
C1_IneligibleSkipped ==
    /\ pc # "raised"
    /\ \A n \in 1..Len(trace) :
          trace[n].step \in EstimatorSteps => ~Ineligible(trace[n].idx)
    /\ \A n \in 1..Len(predictions) :
          \E k \in 1..NumTopics :
              request.topics[k] = predictions[n].topic /\ ~Ineligible(k)
    /\ Returned =>
          \A k \in 1..NumTopics :
              /\ EventsAt(k) # <<>>
              /\ Ineligible(k) =>
                    /\ Len(EventsAt(k)) = 1
                    /\ EventsAt(k)[1].step \in {"skip_absent", "skip_short"}
                    /\ \A n \in 1..Len(response.predictions) :
                          response.predictions[n].topic # request.topics[k]

\* an absent topic and a too-short topic were skipped, and a later topic got a result
C1_Witness ==
    /\ Returned
    /\ NumTopics >= 2
    /\ Ineligible(1)
    /\ EventsAt(1)[1].step = "skip_short"
    /\ ~Ineligible(2)
    /\ Len(response.predictions) = 1

\* C2: when the quantum estimator raises for an eligible topic and the classical
\* estimator then succeeds, that topic's result is labelled "classical_fallback",
\* fallback_used is true, and the response is the concatenation of what each topic
\* contributes on its own: the results of the other topics are what they would be
\* had the topic not failed.
C2_FallbackIsolated ==
    Returned =>
        /\ response.predictions = EmittedUpTo(NumTopics)
        /\ \A k \in 1..NumTopics :
              (Recovered(k) /\ EventsAt(k)[1].step = "quantum") =>
                  /\ response.fallback_used
                  /\ \E n \in 1..Len(response.predictions) :
                        /\ response.predictions[n].topic = request.topics[k]
                        /\ response.predictions[n].method = "classical_fallback"

\* the first topic succeeded on the quantum path, the second failed there and recovered
C2_Witness ==
    /\ Returned
    /\ NumTopics >= 2
    /\ FirstAttemptSucceeded(1) /\ EventsAt(1)[1].step = "quantum"
    /\ Recovered(2) /\ EventsAt(2)[1].step = "quantum"
    /\ Len(response.predictions) = 2
    /\ response.predictions[1].method = "quantum"
    /\ response.predictions[2].method = "classical_fallback"

\* the positions whose topic got a result
Succeeded(k) == FirstAttemptSucceeded(k) \/ Recovered(k)

RECURSIVE SucceededTopics(_)
SucceededTopics(n) ==
    IF n = 0 THEN << >>
    ELSE IF Succeeded(n) THEN Append(SucceededTopics(n - 1), request.topics[n])
    ELSE SucceededTopics(n - 1)

\* C3: when the first attempt and the classical recovery both raise for a topic, the
\* topic is left out of predictions, nothing is raised by predict_topics, and every
\* topic that succeeded is still in the response.
C3_DoubleFailureOmitted ==
    /\ pc # "raised"
    /\ Returned =>
          /\ [n \in 1..Len(response.predictions) |-> response.predictions[n].topic]
                = SucceededTopics(NumTopics)
          /\ \A k \in 1..NumTopics :
                BothRaised(k) =>
                    \/ \E j \in 1..NumTopics :
                          j # k /\ request.topics[j] = request.topics[k] /\ Succeeded(j)
                    \/ \A n \in 1..Len(response.predictions) :
                          response.predictions[n].topic # request.topics[k]

\* one topic failed twice (quantum, then the recovery) and another one got its result
C3_Witness ==
    /\ Returned
    /\ \E k \in 1..NumTopics : BothRaised(k) /\ EventsAt(k)[1].step = "quantum"
    /\ Len(response.predictions) >= 1

\* each requested position was visited exactly once
VisitedOnce ==
    \A k \in 1..NumTopics :
        Cardinality({ n \in 1..Len(trace) :
                        trace[n].idx = k /\ trace[n].step # "recovery" }) = 1

\* some step of predict_topics can be taken: the disjunction of the guards of
\* SkipAbsent, SkipInsufficient, QuantumAttempt, ClassicalAttempt, ClassicalFallback
\* and Return (beyond its guard each of them only assigns)
StepPossible ==
    \/ (InLoop /\ TopicAbsent(Topic))
    \/ (InLoop /\ ~TopicAbsent(Topic) /\ InsufficientData(Data))
    \/ (Eligible /\ UseQuantum)
    \/ (Eligible /\ ~UseQuantum)
    \/ (pc = "except" /\ idx \in 1..NumTopics /\ ~TopicAbsent(Topic))
    \/ (pc = "loop" /\ idx > NumTopics)

\* C4: whatever the per-topic outcomes, predict_topics ends by returning a
\* VQEPredictionResponse after visiting each requested topic exactly once, and never
\* by raising: it is never in the raised position, before it has returned a step is
\* always possible, every step but the return adds a log entry and the log never
\* holds more than two entries per topic (so the steps run out), and once returned
\* every position has been visited exactly once.
C4_AlwaysReturns ==
    /\ pc # "raised"
    /\ pc # "done" => StepPossible
    /\ Len(trace) <= 2 * NumTopics
    /\ Len(trace) >= idx - 1
    /\ pc = "done" => (response # NoResponse /\ VisitedOnce /\ idx = NumTopics + 1)

\* a run that met an absent topic and a double failure, and returned
C4_Witness ==
    /\ Returned
    /\ VisitedOnce
    /\ \E k \in 1..NumTopics : BothRaised(k)
    /\ \E k \in 1..NumTopics : EventsAt(k)[1].step = "skip_absent"

\* the positions of eligible topics, and of those on which the classical estimator
\* does not raise (at least two observations)
EligiblePositions == { k \in 1..NumTopics : ~Ineligible(k) }
EstimablePositions == { k \in EligiblePositions : Len(SeriesOf(k)) >= 2 }

AllMethods(preds, method) == \A n \in 1..Len(preds) : preds[n].method = method

\* C5: a request with force_classical = true yields only results labelled
\* "classical" and is never recorded as a fallback: fallback_used is false.
C5_ForcedClassicalNoFallback ==
    (Returned /\ request.force_classical) =>
        /\ AllMethods(response.predictions, "classical")
        /\ response.fallback_used = FALSE

-----------------------------------------------------------------------------
(* Properties of POST /api/v1/predict (specification ApiSpec) *)

\* the endpoint answered with a PredictionResponse (status 200)
Answered == api_response # NoResponse /\ api_response.status = 200

HasBlendFields(p) ==
    "quantum_contribution" \in DOMAIN p \/ "classical_contribution" \in DOMAIN p

\* C8: with quantum available, force_classical = false and confidence_level >= 0.99
\* the selected method is "quantum": every prediction of the response has method
\* "quantum" and none carries quantum_contribution or classical_contribution.
\* Stated for the predictor the endpoint module itself constructs (VQEPredictor()).
C8_HighConfidenceQuantumOnly ==
    (Answered /\ quantum_available /\ ~api_request.force_classical
        /\ api_request.confidence_level >= 99
        /\ api_service.predictor = "VQEPredictor") =>
        /\ api_selected.method_used = "quantum"
        /\ \A n \in 1..Len(api_response.predictions) :
              /\ api_response.predictions[n].method = "quantum"
              /\ ~HasBlendFields(api_response.predictions[n])

\* the table of the claim: (quantum, classical) weights in hundredths
C9_Table(confidence_level) ==
    IF confidence_level >= 95 THEN <<90, 10>>
    ELSE IF confidence_level >= 90 /\ confidence_level < 95 THEN <<70, 30>>
    ELSE IF confidence_level >= 85 /\ confidence_level < 90 THEN <<60, 40>>
    ELSE <<40, 60>>

\* the predictions of the response that the endpoint built with method "hybrid"
BuiltHybrid ==
    IF Answered /\ api_response.built
    THEN { n \in 1..Len(api_response.predictions) :
              api_response.predictions[n].method = "hybrid" }
    ELSE {}

\* C9: when the selected method is hybrid (quantum available, not forced classical,
\* confidence_level < 0.99) the blend weights are those of the table: (0.9, 0.1)
\* from 0.95, (0.7, 0.3) from 0.90, (0.6, 0.4) from 0.85, (0.4, 0.6) below; the
\* quantum weight never decreases as confidence_level increases.  When the service
\* call leaves the selection alone, every prediction is hybrid and carries them.
C9_BlendWeightTable ==
    (Answered /\ quantum_available /\ ~api_request.force_classical
        /\ api_request.confidence_level < 99) =>
        /\ api_selected.method_used = "hybrid"
        /\ \A n \in BuiltHybrid :
              /\ HasBlendFields(api_response.predictions[n])
              /\ << api_response.predictions[n].quantum_contribution,
                    api_response.predictions[n].classical_contribution >>
                    = C9_Table(api_request.confidence_level)
        /\ (~api_service.raised /\ api_service.result.keys = {}) =>
              BuiltHybrid = 1..Len(api_request.topics)
        /\ \A c \in ApiConfidenceLevels :
              (c >= api_request.confidence_level /\ c < 99) =>
                  \A n \in BuiltHybrid :
                      BuildPrediction(api_request.topics[n], "hybrid", c).quantum_contribution
                          >= api_response.predictions[n].quantum_contribution

\* a hybrid response at confidence 0.94: weights (0.7, 0.3) on every prediction
C9_Witness ==
    /\ Answered
    /\ quantum_available
    /\ ~api_request.force_classical
    /\ api_request.confidence_level = 94
    /\ BuiltHybrid = 1..Len(api_request.topics)
    /\ api_response.predictions[1].quantum_contribution = 70
    /\ api_response.predictions[1].classical_contribution = 30

\* C10: for every hybrid prediction the endpoint produces, blended_uncertainty =
\* quantum_contribution * quantum_uncertainty + classical_contribution *
\* classical_uncertainty, within 1e-6 (weights in hundredths and uncertainties in
\* thousandths: the two sides, in units of 1e-5, must be equal).
C10_BlendedUncertainty ==
    \A n \in BuiltHybrid :
        LET p == api_response.predictions[n]
            u == p.uncertainty_quantification
        IN  100 * u.blended_uncertainty
                = p.quantum_contribution * u.quantum_uncertainty
                    + p.classical_contribution * u.classical_uncertainty

\* C11: every hybrid prediction the endpoint builds has quantum_contribution +
\* classical_contribution = 1, for every confidence_level in [0, 0.99) (weights in
\* hundredths: the sum is exactly 100).
C11_WeightsSumToOne ==
    (Answered /\ api_request.confidence_level >= 0
        /\ api_request.confidence_level < 99) =>
        \A n \in BuiltHybrid :
            /\ HasBlendFields(api_response.predictions[n])
            /\ api_response.predictions[n].quantum_contribution
                  + api_response.predictions[n].classical_contribution = 100

\* hybrid responses at the two ends of the range: confidence 0 and confidence 0.98
C11_Witness ==
    /\ Answered
    /\ api_request.confidence_level \in {0, 98}
    /\ BuiltHybrid = 1..Len(api_request.topics)
    /\ Len(api_request.topics) = 2
    /\ api_response.predictions[2].quantum_contribution
          + api_response.predictions[2].classical_contribution = 100

\* C12: for every prediction with method "hybrid", importance = w_q * (the quantum
\* estimator's importance for the topic's series) + w_c * (the classical estimator's
\* importance for that series), with (w_q, w_c) the prediction's contributions.
\* The quantum estimator's importance is that of one of the optimizer's outcomes.
\* Both sides in units of 1e-6; stated for topics that have a series.
C12_HybridImportanceIsBlend ==
    \A n \in BuiltHybrid :
        LET p == api_response.predictions[n]
        IN  p.topic \in DOMAIN mock_historical_data =>
                \E outcome \in VqeOutcomes :
                    /\ ~outcome.raised
                    /\ 100 * p.importance
                          = p.quantum_contribution * QuantumImportance(outcome.eigenvalue)
                              + p.classical_contribution
                                  * ClassicalImportance(mock_historical_data[p.topic])

\* C13: a POST with an empty topics list is answered 422 before any estimation:
\* predictor.predict_topics is not called, no prediction is built and the handler's
\* request counter has not moved.
C13_EmptyTopicsRejected ==
    (api_response # NoResponse /\ api_request.topics = <<>>) =>
        /\ api_response.status = 422
        /\ ~api_response.service_called
        /\ api_response.predictions = <<>>
        /\ ~api_response.built
        /\ request_count = 0

\* an empty topics list with an in-range confidence level was answered 422
C13_Witness ==
    /\ api_response # NoResponse
    /\ api_request.topics = <<>>
    /\ api_request.confidence_level = 95
    /\ api_response.status = 422
    /\ ~api_response.service_called

-----------------------------------------------------------------------------
(* Further properties of VQEPredictor.predict_topics (specification Spec) *)

IsClassicalResult(p) == p.method \in {"classical", "classical_fallback"}

\* C14: for every series of length >= 2 the result of _classical_prediction has
\* 0 <= lower <= importance <= upper <= 1 (ten-thousandths: 0..10000), whatever the
\* fitted next value and the residual margin.
C14_ClassicalIntervalOrdered ==
    \A n \in 1..Len(predictions) :
        IsClassicalResult(predictions[n]) =>
            /\ 0 <= predictions[n].confidence_interval[1]
            /\ predictions[n].confidence_interval[1] <= predictions[n].importance
            /\ predictions[n].importance <= predictions[n].confidence_interval[2]
            /\ predictions[n].confidence_interval[2] <= 10000

TopicsOf(preds) == [n \in 1..Len(preds) |-> preds[n].topic]

RECURSIVE IsSubsequence(_, _)
\* s can be obtained from t by deleting elements
IsSubsequence(s, t) ==
    IF s = <<>> THEN TRUE
    ELSE IF t = <<>> THEN FALSE
    ELSE IF Head(s) = Head(t) THEN IsSubsequence(Tail(s), Tail(t))
    ELSE IsSubsequence(s, Tail(t))

\* C15: the topics of a request are evaluated one at a time in the caller's order:
\* the log starts at position 1, a raised first attempt is followed at once by the
\* recovery of the same position, anything else by the next position; and the
\* topics of the results are a subsequence of request.topics, in the same order.
C15_EvaluatedInOrder ==
    /\ trace # <<>> => trace[1].idx = 1 /\ trace[1].step # "recovery"
    /\ \A n \in 1..(Len(trace) - 1) :
          IF trace[n].step \in {"quantum", "classical"} /\ trace[n].raised
          THEN trace[n + 1].idx = trace[n].idx /\ trace[n + 1].step = "recovery"
          ELSE trace[n + 1].idx = trace[n].idx + 1 /\ trace[n + 1].step # "recovery"
    /\ IsSubsequence(TopicsOf(predictions), request.topics)
    /\ Returned => IsSubsequence(TopicsOf(response.predictions), request.topics)

\* two different topics, the first recovered after a quantum failure, the second
\* estimated on the quantum path: two results in the request's order
C15_Witness ==
    /\ Returned
    /\ NumTopics = 2
    /\ request.topics[1] # request.topics[2]
    /\ Recovered(1)
    /\ FirstAttemptSucceeded(2)
    /\ TopicsOf(response.predictions) = request.topics

\* the topic at position k used a fallback path: the quantum path was wanted for it
\* (force_classical = false) but was unavailable or raised
UsedFallbackPath(k) ==
    /\ ~request.force_classical
    /\ EventsAt(k) # <<>>
    /\ \/ (EventsAt(k)[1].step = "quantum" /\ EventsAt(k)[1].raised)
       \/ (EventsAt(k)[1].step = "classical" /\ ~quantum_available)

\* C16: the fallback_used flag returned by predict_topics is true if and only if at
\* least one topic of the batch used a fallback path.
C16_FallbackUsedIff ==
    Returned =>
        (response.fallback_used <=> \E k \in 1..NumTopics : UsedFallbackPath(k))

-----------------------------------------------------------------------------
(* Further properties of POST /api/v1/predict (specification ApiSpec) *)

\* C17: when predictor.predict_topics raises during a POST (quantum available,
\* force_classical = false), the endpoint still answers 200 with fallback_used =
\* true, method_used = "classical" and one prediction per requested topic, in the
\* request's order, each with method "classical" (and no blend field).
C17_ServiceRaiseFallsBack ==
    (api_response # NoResponse /\ ValidRequest(api_request) /\ api_service.raised
        /\ quantum_available /\ ~api_request.force_classical) =>
        /\ api_response.status = 200
        /\ api_response.service_called
        /\ api_response.fallback_used = TRUE
        /\ api_response.method_used = "classical"
        /\ Len(api_response.predictions) = Len(api_request.topics)
        /\ \A n \in 1..Len(api_response.predictions) :
              /\ api_response.predictions[n].topic = api_request.topics[n]
              /\ api_response.predictions[n].method = "classical"
              /\ ~HasBlendFields(api_response.predictions[n])

\* the service call raised on a two-topic request that had selected hybrid
C17_Witness ==
    /\ api_response # NoResponse
    /\ api_response.status = 200
    /\ api_service.raised
    /\ quantum_available
    /\ ~api_request.force_classical
    /\ api_request.confidence_level = 90
    /\ api_selected.method_used = "hybrid"
    /\ Len(api_request.topics) = 2
    /\ Len(api_response.predictions) = 2
    /\ api_response.method_used = "classical"

\* the method the policy yields, as a lookup on (quantum_available, force_classical,
\* confidence_level) alone
C18_Method(qa, force_classical, confidence_level) ==
    IF force_classical \/ ~qa THEN "classical"
    ELSE IF confidence_level >= 99 THEN "quantum"
    ELSE "hybrid"

\* the blend weights the built hybrid predictions of a response carry
C18_Weights(resp) ==
    { << resp.predictions[n].quantum_contribution,
         resp.predictions[n].classical_contribution >> :
        n \in { m \in 1..Len(resp.predictions) :
                  resp.built /\ resp.predictions[m].method = "hybrid" } }

-----------------------------------------------------------------------------
(* Properties of the callers of VQEPredictor.predict_topics *)

\* the log entries that are calls of _classical_prediction
ClassicalCalls == { n \in 1..Len(trace) : trace[n].step \in {"classical", "recovery"} }

\* C19 as claimed: in every run of predict_topics, _classical_prediction is never
\* invoked (as first attempt or as recovery) on a series with fewer than 2
\* observations, so its n < 2 error is never raised.
C19_ClassicalNeverShort ==
    \A n \in ClassicalCalls :
        /\ Len(SeriesOf(trace[n].idx)) >= 2
        /\ ~trace[n].raised

\* C19 as amended: provided settings.min_historical_years >= 2 (the default is 3),
\* _classical_prediction is never invoked on a series with fewer than 2
\* observations and never raises; with min_historical_years <= 1 a series of one
\* observation passes the filter, every call of _classical_prediction on it raises
\* and a topic on which it raised gets no result.
C19_ClassicalNeverShortWhenFiltered ==
    /\ min_historical_years >= 2 =>
          \A n \in ClassicalCalls :
              /\ Len(SeriesOf(trace[n].idx)) >= 2
              /\ ~trace[n].raised
    /\ \A n \in ClassicalCalls :
          /\ trace[n].raised <=> Len(SeriesOf(trace[n].idx)) < 2
          /\ trace[n].raised => min_historical_years <= 1
    /\ Returned =>
          \A n \in ClassicalCalls :
              trace[n].raised =>
                  /\ BothRaised(trace[n].idx)
                  /\ Emitted(trace[n].idx) = << >>

\* with min_historical_years = 2 a one-observation series was skipped and a
\* two-observation series went through the classical recovery
C19_Witness ==
    /\ Returned
    /\ min_historical_years = 2
    /\ \E n \in 1..Len(trace) :
          trace[n].step = "skip_short" /\ Len(SeriesOf(trace[n].idx)) = 1
    /\ \E n \in ClassicalCalls :
          trace[n].step = "recovery" /\ Len(SeriesOf(trace[n].idx)) = 2

\* C20: a confidence level outside [0, 1] is rejected before any estimator runs, on
\* every entry path: POST /api/v1/predict answers 422 without calling the
\* predictor, and predict_topics (whose caller is the CLI predict command) never
\* reaches an estimator with such a value.
C20_ConfidenceOutOfRangeRejected ==
    /\ (\E n \in 1..Len(trace) : trace[n].step \in EstimatorSteps) =>
          (request.confidence_level >= 0 /\ request.confidence_level <= 100)
    /\ (api_response # NoResponse
          /\ (api_request.confidence_level < 0 \/ api_request.confidence_level > 100)) =>
          /\ api_response.status = 422
          /\ ~api_response.service_called

-----------------------------------------------------------------------------
(* Determinism, estimator results and response shape *)

\* C21: repeating the same POST against a predictor whose behaviour does not change
\* yields identical response bodies on every call (same predictions, fallback_used,
\* method_used and execution_time_ms), however many requests were served before.
C21_RepeatIdentical ==
    [][ (Answered /\ Answered') => api_response' = api_response ]_vars

\* the estimator calls that returned a result, in order: one per element of predictions
SuccessEvents == SelectSeq(trace, LAMBDA e : e.step \in EstimatorSteps /\ ~e.raised)

\* the sum over all pairs i < j of (j - i) * (y_j - y_i): it has the sign of the
\* slope of the least-squares line through (0, y_1), ..., (n - 1, y_n)
C22_PairSum(data) ==
    SumTo([i \in 1..Len(data) |->
              SumTo([j \in 1..Len(data) |->
                        IF j > i THEN (j - i) * (data[j] - data[i]) ELSE 0],
                    1, Len(data))],
          1, Len(data))

C22_Label(data) ==
    IF C22_PairSum(data) > 0 THEN "increasing"
    ELSE IF C22_PairSum(data) < 0 THEN "decreasing"
    ELSE "stable"

C23_Clamp(eigenvalue) ==
    IF eigenvalue <= -200 THEN 0
    ELSE IF eigenvalue >= 200 THEN 10000
    ELSE 25 * (eigenvalue + 200)

\* C23: for every eigenvalue the optimizer returns, every series of length >= 1 and
\* every confidence_level in [0, 1], the result of _quantum_prediction has
\* importance = clamp((eigenvalue + 2) / 4, 0, 1) and 0 <= lower <= importance <=
\* upper <= 1.
C23_QuantumIntervalOrdered ==
    (request.confidence_level >= 0 /\ request.confidence_level <= 100) =>
        \A n \in 1..Len(predictions) :
            SuccessEvents[n].step = "quantum" =>
                /\ predictions[n].importance = C23_Clamp(SuccessEvents[n].eigenvalue)
                /\ 0 <= predictions[n].confidence_interval[1]
                /\ predictions[n].confidence_interval[1] <= predictions[n].importance
                /\ predictions[n].importance <= predictions[n].confidence_interval[2]
                /\ predictions[n].confidence_interval[2] <= 10000

\* a quantum result for a one-observation series with an eigenvalue inside the
\* range, and one whose eigenvalue is above it
C23_Witness ==
    /\ Returned
    /\ request.confidence_level = 80
    /\ Len(response.predictions) = 2
    /\ SuccessEvents[1].step = "quantum" /\ SuccessEvents[1].eigenvalue = -100
    /\ Len(SeriesOf(SuccessEvents[1].idx)) = 1
    /\ response.predictions[1].confidence_interval[1] < response.predictions[1].importance
    /\ response.predictions[1].importance < response.predictions[1].confidence_interval[2]
    /\ SuccessEvents[2].step = "quantum" /\ SuccessEvents[2].eigenvalue = 250
    /\ response.predictions[2].importance = 10000

C24_LastTwo(series) == << series[Len(series) - 1], series[Len(series)] >>

\* the quantum results of the run whose series has at least two observations
C24_QuantumResults ==
    { n \in 1..Len(predictions) :
        SuccessEvents[n].step = "quantum" /\ Len(SeriesOf(SuccessEvents[n].idx)) >= 2 }

\* C24: the trend label of a quantum result depends only on the last two raw
\* observations: two series of length >= 2 with the same last two observations get
\* the same label, whatever the eigenvalues, and the label is one of increasing,
\* decreasing, stable, unknown.
C24_QuantumTrendFromLastTwo ==
    \A n \in C24_QuantumResults :
        /\ predictions[n].trend \in {"increasing", "decreasing", "stable", "unknown"}
        /\ \A m \in C24_QuantumResults :
              C24_LastTwo(SeriesOf(SuccessEvents[n].idx))
                    = C24_LastTwo(SeriesOf(SuccessEvents[m].idx))
                  => predictions[m].trend = predictions[n].trend
        /\ \A other \in SeriesPool :
              (Len(other) >= 2
                  /\ C24_LastTwo(other) = C24_LastTwo(SeriesOf(SuccessEvents[n].idx)))
                  => QuantumTrend(other) = predictions[n].trend

\* two quantum results with different eigenvalues for two different series that
\* end with the same two observations
C24_Witness ==
    /\ Returned
    /\ C24_QuantumResults = {1, 2}
    /\ SeriesOf(SuccessEvents[1].idx) = <<10, 12>>
    /\ SeriesOf(SuccessEvents[2].idx) = <<40, 10, 12>>
    /\ SuccessEvents[1].eigenvalue # SuccessEvents[2].eigenvalue
    /\ response.predictions[1].trend = response.predictions[2].trend

\* C25: the estimator path is decided per request, not per topic: in a response
\* whose predictions the endpoint built itself, every prediction's method equals
\* the response's method_used, for any number of topics, with or without data.
C25_MethodPerRequest ==
    (Answered /\ api_response.built) =>
        \A n \in 1..Len(api_response.predictions) :
            api_response.predictions[n].method = api_response.method_used

\* a built hybrid response over a known and an unknown topic
C25_Witness ==
    /\ Answered
    /\ api_response.built
    /\ api_response.method_used = "hybrid"
    /\ api_request.topics = <<"thermodynamics", "physics">>
    /\ api_response.predictions[2].trend = "unknown"
    /\ api_response.predictions[2].method = "hybrid"

\* C26: a prediction the endpoint builds carries quantum_contribution and
\* classical_contribution if and only if its method is "hybrid"; a prediction built
\* after the service call failed carries neither.
C26_HybridFieldsIffHybrid ==
    (Answered /\ api_response.built) =>
        \A n \in 1..Len(api_response.predictions) :
            LET p == api_response.predictions[n]
            IN  /\ "quantum_contribution" \in DOMAIN p <=> p.method = "hybrid"
                /\ "classical_contribution" \in DOMAIN p <=> p.method = "hybrid"
                /\ api_service.raised => ~HasBlendFields(p)

\* hybrid was selected, the service call raised: the prediction has no hybrid field
C26_Witness ==
    /\ Answered
    /\ api_response.built
    /\ api_service.raised
    /\ api_selected.method_used = "hybrid"
    /\ api_request.confidence_level = 50
    /\ Len(api_response.predictions) = 1
    /\ ~HasBlendFields(api_response.predictions[1])

C28_AtMostOnePerOccurrence ==
    /\ Len(SuccessEvents) = Len(predictions)
    /\ Len(predictions) <= NumTopics
    /\ \A n \in 1..Len(predictions) :
          LET k == SuccessEvents[n].idx
          IN  /\ k \in 1..NumTopics
              /\ predictions[n].topic = request.topics[k]
              /\ request.topics[k] \in DOMAIN historical_data
              /\ Len(historical_data[request.topics[k]]) >= min_historical_years
              /\ \A m \in 1..Len(predictions) :
                    m < n => SuccessEvents[m].idx < k
    /\ Returned =>
          /\ response.predictions = predictions
          /\ Len(response.predictions) <= Len(request.topics)

\* the same topic requested twice gave two results; min_historical_years = 3
C28_Witness ==
    /\ Returned
    /\ NumTopics = 2
    /\ request.topics[1] = request.topics[2]
    /\ min_historical_years = 3
    /\ Len(response.predictions) = 2

\* the estimator calls logged for position k, in order
EstimatorCallsAt(k) == SelectSeq(EventsAt(k), LAMBDA e : e.step \in EstimatorSteps)

\* C29: for each topic the quantum estimator is invoked at most once, the classical
\* recovery call happens only after the first estimator attempt for that topic has
\* raised, no estimator call follows the recovery call, and at most two estimator
\* invocations happen per topic.
C29_NoRetry ==
    \A k \in 1..NumTopics :
        LET calls == EstimatorCallsAt(k)
        IN  /\ Len(calls) <= 2
            /\ Cardinality({ i \in 1..Len(calls) : calls[i].step = "quantum" }) <= 1
            /\ \A i \in 1..Len(calls) :
                  calls[i].step = "recovery" =>
                      /\ i = 2
                      /\ calls[1].step \in {"quantum", "classical"}
                      /\ calls[1].raised
            /\ Len(calls) = 2 => calls[2].step = "recovery"

\* the first topic failed on both calls, the second recovered after a quantum failure
C29_Witness ==
    /\ Returned
    /\ NumTopics = 2
    /\ BothRaised(1) /\ EventsAt(1)[1].step = "quantum"
    /\ Recovered(2) /\ EventsAt(2)[1].step = "quantum"
    /\ Len(trace) = 4

\* C30: a result is labelled "classical_fallback" if and only if the recovery call
\* produced it; a result of a first attempt is labelled "quantum" when quantum was
\* available and not forced off, and "classical" otherwise (also when quantum was
\* unavailable).
C30_LabelSemantics ==
    \A n \in 1..Len(predictions) :
        /\ predictions[n].method = "classical_fallback" <=> SuccessEvents[n].step = "recovery"
        /\ SuccessEvents[n].step # "recovery" =>
              predictions[n].method =
                  IF quantum_available /\ ~request.force_classical
                  THEN "quantum" ELSE "classical"
        /\ SuccessEvents[n].step = "quantum" <=> predictions[n].method = "quantum"

\* quantum available: a recovered topic labelled "classical_fallback", then a first
\* attempt labelled "quantum"
C30_Witness ==
    /\ Returned
    /\ quantum_available
    /\ ~request.force_classical
    /\ Len(response.predictions) = 2
    /\ SuccessEvents[1].step = "recovery"
    /\ response.predictions[1].method = "classical_fallback"
    /\ SuccessEvents[2].step = "quantum"
    /\ response.predictions[2].method = "quantum"

====
